---- MODULE Spec2Model ----
(***************************************************************************)
(* Blanket orders (sale.blanket.order), their lines                        *)
(* (sale.blanket.order.line), the draw-down sale orders that consume them  *)
(* and the wizard that creates draw-downs (sale.blanket.order.wizard).     *)
(*                                                                         *)
(* Quantities are integers counting thousandths (0.001) so that the float  *)
(* tolerances of the code (0.001 write tolerance, precision_digits = 3 in  *)
(* the wizard, the "Product Unit of Measure" precision of float_is_zero)   *)
(* are exact integer comparisons.  Dates are day numbers; 0 stands for an  *)
(* empty date, 0 for an empty Many2one, name 0 for the "Draft" placeholder.*)
(***************************************************************************)
EXTENDS Integers, Sequences, FiniteSets, TLC

VARIABLES bo, bol, so, wiz, seq, today, last

vars == <<bo, bol, so, wiz, seq, today, last>>

-----------------------------------------------------------------------------
(* Bounds of the model *)

\* largest original quantity of a blanket line, in whole units
MaxQty == 2
\* number of draw-down sale orders that may be created
MaxSO == 2
\* last day 'today' may reach (the first day is 1)
MaxDay == 2
\* number of calls of the sequence service
MaxSeq == 2

-----------------------------------------------------------------------------
(* Arithmetic of odoo.tools.float_utils on thousandths *)

\* precision_digits = 3 of the wizard checks; also the scale of all quantities
precision_digits == 3
\* precision_get("Product Unit of Measure"), Odoo's default
precision == 2

RECURSIVE Pow10(_)
Pow10(n) == IF n <= 0 THEN 1 ELSE 10 * Pow10(n - 1)

\* one whole unit (1.0)
Unit == Pow10(precision_digits)

Abs(x) == IF x < 0 THEN -x ELSE x

Max(a, b) == IF a >= b THEN a ELSE b

\* float_round(value, precision_digits = d): to the nearest 10^-d, half up
float_round(v, d) ==
    LET step == Pow10(precision_digits - d)
        mag  == ((2 * Abs(v) + step) \div (2 * step)) * step
    IN  IF v < 0 THEN -mag ELSE mag

\* float_is_zero(value, precision_digits = d)
float_is_zero(v, d) == Abs(float_round(v, d)) < Pow10(precision_digits - d)

\* float_compare(value1, value2, precision_digits = d)
float_compare(a, b, d) ==
    LET delta == float_round(a, d) - float_round(b, d)
    IN  IF float_is_zero(delta, d) THEN 0 ELSE IF delta < 0 THEN -1 ELSE 1

-----------------------------------------------------------------------------
(* Units of measure: the reference unit and the dozen of the test data,    *)
(* and a unit of another category, to which conversion fails.              *)

Uom == [unit  |-> [category |-> "Unit",   ratio |-> 1,  rounding |-> 10],
        dozen |-> [category |-> "Unit",   ratio |-> 12, rounding |-> 1],
        kg    |-> [category |-> "Weight", ratio |-> 1,  rounding |-> 10]]

NoUom == "none"

\* uom._compute_quantity raises for units of different categories
can_convert(from, to) == from = to \/ Uom[from].category = Uom[to].category

\* uom._compute_quantity(qty, to_unit): convert, then round UP to to_unit.rounding
compute_quantity(qty, from, to) ==
    LET r   == Uom[to].rounding
        num == IF from = to THEN qty ELSE qty * Uom[from].ratio
        den == IF from = to THEN 1 ELSE Uom[to].ratio
    IN  IF qty = 0 THEN 0
        ELSE ((num + den * r - 1) \div (den * r)) * r

-----------------------------------------------------------------------------
(* Sets over a finite set or sequence *)

RECURSIVE SumOver(_, _, _)
\* sum of F[x] over the elements x of S
SumOver(S, F, acc) ==
    IF S = {} THEN acc
    ELSE LET x == CHOOSE y \in S : TRUE IN SumOver(S \ {x}, F, acc + F[x])

\* the (order index, line index) pairs of all sale order lines of the sale orders S
SaleLineIds(S) ==
    UNION { { <<i, j>> : j \in DOMAIN S[i].order_line } : i \in DOMAIN S }

-----------------------------------------------------------------------------
(* Products: every product of the test data is sold in the reference unit *)

Products == {1, 2}

\* product.uom_id, empty for the empty product of a section line
ProductUom(p) == IF p = 0 THEN NoUom ELSE "unit"

-----------------------------------------------------------------------------
(* BlanketOrderLine._compute_quantities *)

\* 0.001, the tolerance under which a recomputed quantity is not written
WriteTolerance == Unit \div 1000

\* the write of one recomputed quantity: skipped within the tolerance
write_if_changed(current_value, new_value) ==
    IF Abs(current_value - new_value) > WriteTolerance THEN new_value
    ELSE current_value

\* the mutation of counted_sale_lines that also counts cancelled sale orders
counted_sale_lines_with_cancelled(ln, l, S) ==
    { ij \in SaleLineIds(S) :
        /\ S[ij[1]].order_line[ij[2]].blanket_order_line = l
        /\ S[ij[1]].order_line[ij[2]].product_id = ln.product_id }

\* the mutation of counted_sale_lines that counts whatever the product
counted_sale_lines_any_product(ln, l, S) ==
    { ij \in SaleLineIds(S) :
        /\ S[ij[1]].order_line[ij[2]].blanket_order_line = l
        /\ S[ij[1]].state # "cancel" }

\* the mutation of counted_sale_lines that counts confirmed sale orders only
counted_sale_lines_confirmed_only(ln, l, S) ==
    { ij \in SaleLineIds(S) :
        /\ S[ij[1]].order_line[ij[2]].blanket_order_line = l
        /\ S[ij[1]].state = "sale"
        /\ S[ij[1]].order_line[ij[2]].product_id = ln.product_id }

\* the sale order lines of S that count for blanket line l (record ln): those
\* referencing it whose order is not cancelled and whose product is the line's
counted_sale_lines(ln, l, S) ==
    { ij \in SaleLineIds(S) :
        /\ S[ij[1]].order_line[ij[2]].blanket_order_line = l
        /\ S[ij[1]].state # "cancel"
        /\ S[ij[1]].order_line[ij[2]].product_id = ln.product_id }

\* the mutation of converted_qty that leaves out a sale order line whose
\* conversion raises
converted_qty_skip_failed(ln, sl) ==
    IF /\ ln.product_uom # NoUom
       /\ sl.product_uom # NoUom
       /\ ~can_convert(sl.product_uom, ln.product_uom)
    THEN 0
    ELSE IF ln.product_uom # NoUom /\ sl.product_uom # NoUom
    THEN compute_quantity(sl.product_uom_qty, sl.product_uom, ln.product_uom)
    ELSE sl.product_uom_qty

\* the mutation of converted_qty that never converts
converted_qty_raw(ln, sl) == sl.product_uom_qty

\* the quantity of sale order line sl in the unit of blanket line ln; the raw
\* quantity when a unit is missing or the conversion raises
converted_qty(ln, sl) ==
    IF /\ ln.product_uom # NoUom
       /\ sl.product_uom # NoUom
       /\ can_convert(sl.product_uom, ln.product_uom)
    THEN compute_quantity(sl.product_uom_qty, sl.product_uom, ln.product_uom)
    ELSE sl.product_uom_qty

\* ordered_uom_qty: the sum over the counted sale order lines
ordered_sum(ln, l, S) ==
    LET sale_lines == counted_sale_lines(ln, l, S)
        qty == [ij \in sale_lines |->
                   converted_qty(ln, S[ij[1]].order_line[ij[2]])]
    IN  SumOver(sale_lines, qty, 0)

\* the mutation of remaining_of that does not clamp at zero
remaining_unclamped(original_qty, ordered_qty) == original_qty - ordered_qty

\* remaining_uom_qty = max(0.0, original_qty - ordered_qty)
remaining_of(original_qty, ordered_qty) == Max(0, original_qty - ordered_qty)

\* remaining_qty: the remaining quantity in the product's base unit
remaining_base(ln, remaining) ==
    IF /\ ln.product_uom # NoUom
       /\ ProductUom(ln.product_id) # NoUom
       /\ can_convert(ln.product_uom, ProductUom(ln.product_id))
    THEN compute_quantity(remaining, ln.product_uom, ProductUom(ln.product_id))
    ELSE remaining

\* the record of blanket line l after _compute_quantities over the sale orders S
compute_quantities(ln, l, S) ==
    LET ordered   == ordered_sum(ln, l, S)
        remaining == remaining_of(ln.original_uom_qty, ordered)
    IN  [ln EXCEPT
           !.ordered_uom_qty   = write_if_changed(@, ordered),
           !.remaining_uom_qty = write_if_changed(@, remaining),
           !.remaining_qty     = write_if_changed(@, remaining_base(ln, remaining))]

\* SaleBlanketOrderLine._compute_remaining_qty of the standalone line model:
\* 0 for a section or note, else max(0, quantity - ordered)
compute_remaining_qty(display_type, product_uom_qty, ordered_uom_qty) ==
    IF display_type THEN 0 ELSE Max(0, product_uom_qty - ordered_uom_qty)

-----------------------------------------------------------------------------
(* BlanketOrder._compute_state *)

\* the lines of blanket order o among the lines L
LinesOf(o, L) == { l \in DOMAIN L : L[l].order_id = o }

\* the lines of o that are no section or note
ProductLinesOf(o, L) == { l \in LinesOf(o, L) : ~L[l].display_type }

\* the mutation of remaining_total that sums over the sections too
remaining_total_all_lines(o, L) ==
    SumOver(LinesOf(o, L), [l \in DOMAIN L |-> L[l].remaining_uom_qty], 0)

\* sum(valid_lines.mapped("remaining_uom_qty"))
remaining_total(o, L) ==
    SumOver(ProductLinesOf(o, L), [l \in DOMAIN L |-> L[l].remaining_uom_qty], 0)

\* the mutation of state_rule that tests the quantity before the date
state_rule_quantity_first(confirmed, validity_date, day, remaining_qty) ==
    IF ~confirmed THEN "draft"
    ELSE IF float_is_zero(remaining_qty, precision) THEN "done"
    ELSE IF validity_date # 0 /\ validity_date <= day THEN "expired"
    ELSE "open"

\* the branches of _compute_state
state_rule(confirmed, validity_date, day, remaining_qty) ==
    IF ~confirmed THEN "draft"
    ELSE IF validity_date # 0 /\ validity_date <= day THEN "expired"
    ELSE IF float_is_zero(remaining_qty, precision) THEN "done"
    ELSE "open"

\* the state _compute_state assigns to order o (record order)
compute_state(order, o, L, day) ==
    state_rule(order.confirmed, order.validity_date, day, remaining_total(o, L))

-----------------------------------------------------------------------------
(* Recomputation of the stored computed fields after a write, as their     *)
(* api.depends declarations trigger it                                     *)

\* the lines ls recomputed over the sale orders S
recompute_lines(L, S, ls) ==
    [l \in DOMAIN L |-> IF l \in ls THEN compute_quantities(L[l], l, S) ELSE L[l]]

\* the state of the orders os recomputed
recompute_states(B, L, day, os) ==
    [o \in DOMAIN B |->
        IF o \in os THEN [B[o] EXCEPT !.state = compute_state(B[o], o, L, day)]
        ELSE B[o]]

\* the blanket lines referenced by the lines of sale order record s
ReferencedLines(s) ==
    { s.order_line[j].blanket_order_line : j \in DOMAIN s.order_line }

-----------------------------------------------------------------------------
(* Validation before confirmation *)

\* BlanketOrderLine._validate passes for line record ln
line_validate(ln) ==
    \/ ln.display_type
    \/ /\ ln.price_unit > 0
       /\ ln.original_uom_qty > 0
       /\ ln.product_id # 0
       /\ ln.product_uom # NoUom

\* BlanketOrder._validate passes for order o (record order)
validate(order, o, L, day) ==
    /\ order.validity_date # 0
    /\ order.validity_date > day
    /\ order.partner_id # 0
    /\ ProductLinesOf(o, L) # {}
    /\ \A l \in ProductLinesOf(o, L) : line_validate(L[l])

-----------------------------------------------------------------------------
(* The draw-down sale orders of a blanket order *)

\* _get_sale_orders: the sale orders with a line referencing a line of o
get_sale_orders(o, L, S) ==
    { i \in DOMAIN S : ReferencedLines(S[i]) \cap LinesOf(o, L) # {} }

\* _compute_sale_count: the number of sale orders of o
sale_count(o, L, S) == Cardinality(get_sale_orders(o, L, S))

\* _check_active_orders: a sale order of o is neither cancelled nor a draft
check_active_orders(o, L, S) ==
    \E i \in get_sale_orders(o, L, S) : S[i].state \notin {"cancel", "draft"}

-----------------------------------------------------------------------------
(* The record of the last operation: its name, the blanket order it was   *)
(* called on (0 when it has none), whether it returned (ok) or raised, and *)
(* for action_confirm whether the operation before it was the same call    *)
(* and returned.                                                           *)

Outcome(op, id, ok) ==
    [op |-> op, id |-> id, ok |-> ok,
     rep |-> op = "action_confirm" /\ last.op = op /\ last.id = id /\ last.ok]

\* an operation that raises: the transaction is rolled back
Raises(op, id) ==
    /\ last' = Outcome(op, id, FALSE)
    /\ UNCHANGED <<bo, bol, so, wiz, seq, today>>

-----------------------------------------------------------------------------
(* BlanketOrder.action_confirm, on the single order o *)

\* what next_by_code may do: return a number, return nothing, raise
SeqOutcomes == {"number", "none", "raise"}

\* the mutation of fallback_name that keeps the placeholder name
fallback_name_placeholder(o) == 0

\* the name "BO-<id>-<timestamp>" used when the sequence gives none
fallback_name(o) == -o

\* the mutation of confirm_skips that never skips
confirm_never_skips(order) == FALSE

\* action_confirm skips an order that is already confirmed
confirm_skips(order) == order.confirmed

action_confirm(o) ==
    /\ o \in DOMAIN bo
    /\ IF ~validate(bo[o], o, bol, today)
       THEN Raises("action_confirm", o)
       ELSE IF confirm_skips(bo[o])
       THEN /\ last' = Outcome("action_confirm", o, TRUE)
            /\ UNCHANGED <<bo, bol, so, wiz, seq, today>>
       ELSE /\ seq.calls < MaxSeq
            /\ \E outcome \in SeqOutcomes :
                 LET name == IF outcome = "number" THEN seq.number + 1
                             ELSE fallback_name(o)
                 IN  /\ seq' = [calls  |-> seq.calls + 1,
                                number |-> IF outcome = "number"
                                           THEN seq.number + 1 ELSE seq.number]
                     /\ bo' = recompute_states(
                                [bo EXCEPT ![o].confirmed = TRUE, ![o].name = name],
                                bol, today, {o})
            /\ last' = Outcome("action_confirm", o, TRUE)
            /\ UNCHANGED <<bol, so, wiz, today>>

-----------------------------------------------------------------------------
(* BlanketOrder.action_cancel and set_to_draft, on the single order o *)

action_cancel(o) ==
    /\ o \in DOMAIN bo
    /\ IF check_active_orders(o, bol, so)
       THEN Raises("action_cancel", o)
       ELSE /\ bo' = IF bo[o].state # "expired"
                     THEN [bo EXCEPT ![o].state = "expired"]
                     ELSE bo
            /\ last' = Outcome("action_cancel", o, TRUE)
            /\ UNCHANGED <<bol, so, wiz, seq, today>>

set_to_draft(o) ==
    /\ o \in DOMAIN bo
    /\ bo' = IF bo[o].state # "draft" \/ bo[o].confirmed
             THEN [bo EXCEPT ![o].state = "draft", ![o].confirmed = FALSE]
             ELSE bo
    /\ last' = Outcome("set_to_draft", o, TRUE)
    /\ UNCHANGED <<bol, so, wiz, seq, today>>

-----------------------------------------------------------------------------
(* BlanketOrder.expire_orders, the scheduled sweep *)

\* the mutation of expired_orders that leaves out the orders that expire today
expired_orders_before(B, day) ==
    { o \in DOMAIN B : /\ B[o].state = "open"
                       /\ B[o].validity_date # 0
                       /\ B[o].validity_date < day }

\* the orders the sweep finds: stored state open, validity date <= today
expired_orders(B, day) ==
    { o \in DOMAIN B : /\ B[o].state = "open"
                       /\ B[o].validity_date # 0
                       /\ B[o].validity_date <= day }

\* the orders after the sweep: the state of each order found is recomputed
swept(B, L, day) == recompute_states(B, L, day, expired_orders(B, day))

expire_orders ==
    /\ bo' = swept(bo, bol, today)
    /\ last' = Outcome("expire_orders", 0, TRUE)
    /\ UNCHANGED <<bol, so, wiz, seq, today>>

\* a day passes
Tick ==
    /\ today < MaxDay
    /\ today' = today + 1
    /\ last' = Outcome("tick", 0, TRUE)
    /\ UNCHANGED <<bo, bol, so, wiz, seq>>

-----------------------------------------------------------------------------
(* Sale orders drawing down blanket lines.  Writing a sale order or one of *)
(* its lines triggers _compute_quantities of the blanket lines referenced  *)
(* and, through line_ids.remaining_uom_qty, _compute_state of their orders *)

\* the quantities a request or a sale order line may carry: whole units
Quantities == { k * Unit : k \in 0..MaxQty }

\* the blanket orders owning the lines ls
OrdersOf(L, ls) == { L[l].order_id : l \in ls \cap DOMAIN L }

\* lines and orders after the sale orders became S and the lines ls are recomputed
lines_after(S, ls) == recompute_lines(bol, S, ls)
orders_after(B, S, ls) ==
    recompute_states(B, lines_after(S, ls), today, OrdersOf(bol, ls))

\* a sale order line referencing blanket line l
sale_line(l, p, uom, qty, price) ==
    [blanket_order_line |-> l, product_id |-> p, product_uom |-> uom,
     product_uom_qty |-> qty, price_unit |-> price]

\* sale.order.create with one line referencing blanket line l, whatever the
\* product and however large the quantity
sale_order_create(l, p, qty) ==
    /\ Len(so) < MaxSO
    /\ l \in DOMAIN bol
    /\ ~bol[l].display_type
    /\ LET order == [state |-> "draft", partner_id |-> bo[bol[l].order_id].partner_id,
                     order_line |-> <<sale_line(l, p, ProductUom(p), qty, bol[l].price_unit)>>]
       IN  /\ so'  = Append(so, order)
           /\ bol' = lines_after(so', {l})
           /\ bo'  = orders_after(bo, so', {l})
    /\ last' = Outcome("sale_order_create", 0, TRUE)
    /\ UNCHANGED <<wiz, seq, today>>

\* the state of sale order i is written: draft -> sale, or -> cancel
sale_order_write_state(i, state, op) ==
    /\ so'  = [so EXCEPT ![i].state = state]
    /\ bol' = lines_after(so', ReferencedLines(so[i]))
    /\ bo'  = orders_after(bo, so', ReferencedLines(so[i]))
    /\ last' = Outcome(op, 0, TRUE)
    /\ UNCHANGED <<wiz, seq, today>>

sale_order_confirm(i) ==
    /\ i \in DOMAIN so
    /\ so[i].state = "draft"
    /\ sale_order_write_state(i, "sale", "sale_order_confirm")

sale_order_cancel(i) ==
    /\ i \in DOMAIN so
    /\ so[i].state # "cancel"
    /\ sale_order_write_state(i, "cancel", "sale_order_cancel")

-----------------------------------------------------------------------------
(* The wizard sale.blanket.order.wizard and its lines: line_ids maps the   *)
(* blanket line of each wizard line to its qty                             *)

NoWizard == [blanket_order_id |-> 0, line_ids |-> <<>>]

\* _check_qty_limits passes for a wizard line of quantity qty
check_qty_limits(qty, remaining_uom_qty) ==
    /\ qty >= 0
    /\ IF float_is_zero(remaining_uom_qty, precision_digits)
       THEN qty <= Pow10(precision_digits - precision_digits)
       ELSE float_compare(qty, remaining_uom_qty, precision_digits) <= 0

\* _default_order passes for order o once the sweep has run: it is open
default_order_ok(B, o) == B[o].state = "open"

\* _check_valid_blanket_order_line passes for the lines ls
check_valid_blanket_order_line(B, L, ls) ==
    /\ ls # {}
    /\ \E l \in ls : ~float_is_zero(L[l].remaining_uom_qty, precision_digits)
    /\ \A l \in ls : L[l].order_id \in DOMAIN B /\ B[L[l].order_id].state = "open"

\* _default_lines: a wizard line for each product line with remaining
\* quantity, proposing all of it
default_lines(L, ls) ==
    LET with_remaining == { l \in ls : ~L[l].display_type /\ L[l].remaining_uom_qty > 0 }
    IN  [l \in with_remaining |-> L[l].remaining_uom_qty]

\* the wizard is opened on blanket order o (active_model sale.blanket.order)
wizard_create(o) ==
    /\ o \in DOMAIN bo
    /\ LET B == swept(bo, bol, today)
       IN  IF /\ default_order_ok(B, o)
              /\ LinesOf(o, bol) # {} => check_valid_blanket_order_line(B, bol, LinesOf(o, bol))
           THEN /\ bo'  = B
                /\ wiz' = [blanket_order_id |-> o,
                           line_ids |-> default_lines(bol, LinesOf(o, bol))]
                /\ last' = Outcome("wizard_create", o, TRUE)
                /\ UNCHANGED <<bol, so, seq, today>>
           ELSE Raises("wizard_create", o)

\* the user sets the quantity of the wizard line of blanket line l
wizard_line_write(l, qty) ==
    /\ l \in DOMAIN wiz.line_ids
    /\ IF check_qty_limits(qty, bol[l].remaining_uom_qty)
       THEN /\ wiz' = [wiz EXCEPT !.line_ids[l] = qty]
            /\ last' = Outcome("wizard_line_write", 0, TRUE)
            /\ UNCHANGED <<bo, bol, so, seq, today>>
       ELSE Raises("wizard_line_write", 0)

-----------------------------------------------------------------------------
(* BlanketOrderWizard.create_sale_order *)

\* valid_lines: the wizard lines with qty > 0
valid_lines(W) == { l \in DOMAIN W.line_ids : W.line_ids[l] > 0 }

\* the mutation of qty_exceeds that lets every quantity pass
qty_exceeds_never(qty, remaining_uom_qty) == FALSE

\* line.qty > line.remaining_uom_qty, on the line's current remaining quantity
qty_exceeds(qty, remaining_uom_qty) == qty > remaining_uom_qty

\* the customers of the lines ls: line.partner_id is the order's customer
customers(B, L, ls) == { B[L[l].order_id].partner_id : l \in ls }

\* the mutation of create_rejected that checks nothing
create_rejected_never(W, B, L) == FALSE

\* the call raises a UserError
create_rejected(W, B, L) ==
    \/ DOMAIN W.line_ids = {}
    \/ valid_lines(W) = {}
    \/ \E l \in valid_lines(W) : qty_exceeds(W.line_ids[l], L[l].remaining_uom_qty)
    \/ 0 \in customers(B, L, valid_lines(W))
    \/ W.blanket_order_id = 0

\* the mutation of prepare_so_line_vals that takes all that remains of the
\* blanket line instead of the quantity of the wizard line
prepare_so_line_vals_remaining(W, L, l) ==
    sale_line(l, L[l].product_id, L[l].product_uom, L[l].remaining_uom_qty,
              L[l].price_unit)

\* _prepare_so_line_vals for the wizard line of blanket line l
prepare_so_line_vals(W, L, l) ==
    sale_line(l, L[l].product_id, L[l].product_uom, W.line_ids[l], L[l].price_unit)

RECURSIVE order_lines(_, _, _)
\* the sale order lines prepared from the wizard lines ls, in line order
order_lines(W, L, ls) ==
    IF ls = {} THEN <<>>
    ELSE LET l == CHOOSE x \in ls : \A y \in ls : x <= y
         IN  <<prepare_so_line_vals(W, L, l)>> \o order_lines(W, L, ls \ {l})

RECURSIVE created_orders(_, _, _, _)
\* one sale order for each of the customers cs, with the lines of that customer
created_orders(W, B, L, cs) ==
    IF cs = {} THEN <<>>
    ELSE LET c == CHOOSE x \in cs : \A y \in cs : x <= y
             ls == { l \in valid_lines(W) : B[L[l].order_id].partner_id = c }
         IN  <<[state |-> "draft", partner_id |-> c,
                order_line |-> order_lines(W, L, ls)]>>
             \o created_orders(W, B, L, cs \ {c})

create_sale_order ==
    /\ wiz # NoWizard
    /\ IF create_rejected(wiz, bo, bol)
       THEN Raises("create_sale_order", wiz.blanket_order_id)
       ELSE LET new == created_orders(wiz, bo, bol,
                                      customers(bo, bol, valid_lines(wiz)))
            IN  /\ Len(so) + Len(new) <= MaxSO
                /\ so'  = so \o new
                /\ bol' = lines_after(so', valid_lines(wiz))
                /\ bo'  = orders_after(bo, so', valid_lines(wiz))
                /\ last' = Outcome("create_sale_order", wiz.blanket_order_id, TRUE)
                /\ UNCHANGED <<wiz, seq, today>>

-----------------------------------------------------------------------------
(* One blanket order of a customer, with two product lines and a section,  *)
(* as BlanketOrder.create and BlanketOrderLine.create leave them           *)

NoOutcome == [op |-> "create", id |-> 0, ok |-> TRUE, rep |-> FALSE]

\* a new order: not confirmed, state draft, name "Draft" (0)
new_order(validity_date, partner_id) ==
    [confirmed |-> FALSE, state |-> "draft", name |-> 0,
     validity_date |-> validity_date, partner_id |-> partner_id]

\* a new product line of order o, its quantities computed with no sale line
new_line(o, p, uom, qty, price) ==
    compute_quantities(
        [order_id |-> o, display_type |-> FALSE, product_id |-> p,
         product_uom |-> uom, original_uom_qty |-> qty, price_unit |-> price,
         ordered_uom_qty |-> 0, remaining_uom_qty |-> 0, remaining_qty |-> 0],
        0, <<>>)

\* a new section of order o: create empties product, unit and price, and
\* original_uom_qty keeps its default 1
new_section(o) ==
    compute_quantities(
        [order_id |-> o, display_type |-> TRUE, product_id |-> 0,
         product_uom |-> NoUom, original_uom_qty |-> Unit, price_unit |-> 0,
         ordered_uom_qty |-> 0, remaining_uom_qty |-> 0, remaining_qty |-> 0],
        0, <<>>)

Init ==
    /\ today = 1
    /\ bo = 1 :> new_order(MaxDay, 1)
    /\ bol = (1 :> new_line(1, 1, "unit", 2 * Unit, 1))
             @@ (2 :> new_line(1, 2, "unit", Unit, 1))
             @@ (3 :> new_section(1))
    /\ so = <<>>
    /\ wiz = NoWizard
    /\ seq = [calls |-> 0, number |-> 0]
    /\ last = NoOutcome

\* the operations with today held fixed
NextToday ==
    \/ \E o \in DOMAIN bo : action_confirm(o)
    \/ \E o \in DOMAIN bo : action_cancel(o)
    \/ \E o \in DOMAIN bo : set_to_draft(o)
    \/ \E o \in DOMAIN bo : wizard_create(o)
    \/ \E l \in DOMAIN bol, qty \in Quantities : wizard_line_write(l, qty)
    \/ create_sale_order
    \/ \E p \in Products, qty \in Quantities \ {0} : sale_order_create(1, p, qty)
    \/ \E i \in DOMAIN so : sale_order_confirm(i)
    \/ \E i \in DOMAIN so : sale_order_cancel(i)

Next ==
    \/ NextToday
    \/ expire_orders
    \/ Tick

Spec == Init /\ [][Next]_vars

SpecToday == Init /\ [][NextToday]_vars

-----------------------------------------------------------------------------
(* Confirmation of every kind of draft order: with or without validity     *)
(* date (0 is none) and customer, with a section only or with a product    *)
(* line too, priced or not                                                 *)

InitConfirm ==
    /\ today = 1
    /\ \E v \in 0..(MaxDay + 1), partner \in {0, 1} : bo = 1 :> new_order(v, partner)
    /\ \E price \in {0, 1}, product_line \in BOOLEAN :
         bol = IF product_line
               THEN (1 :> new_line(1, 1, "unit", Unit, price)) @@ (3 :> new_section(1))
               ELSE (3 :> new_section(1))
    /\ so = <<>>
    /\ wiz = NoWizard
    /\ seq = [calls |-> 0, number |-> 0]
    /\ last = NoOutcome

NextConfirm ==
    \/ \E o \in DOMAIN bo : action_confirm(o)
    \/ \E o \in DOMAIN bo : action_cancel(o)
    \/ \E o \in DOMAIN bo : set_to_draft(o)
    \/ expire_orders
    \/ Tick

SpecConfirm == InitConfirm /\ [][NextConfirm]_vars

-----------------------------------------------------------------------------
(* _compute_state as a function: applied to an order with any confirmed    *)
(* flag, validity date and stored state, on any day, with two lines in     *)
(* dozens whose remaining quantities are any of RemainingQuantities        *)

\* nothing, 0.003 and 0.006 of a dozen (what 0.17 - 2 units and 0.09 - 1 unit
\* leave), and a whole dozen
RemainingQuantities == {0, 3, 6, Unit}

States == {"draft", "open", "done", "expired"}

\* a line of order o in dozens of which remaining is left of one dozen
line_with_remaining(o, p, remaining) ==
    [order_id |-> o, display_type |-> FALSE, product_id |-> p,
     product_uom |-> "dozen", original_uom_qty |-> Unit, price_unit |-> 1,
     ordered_uom_qty |-> Unit - remaining, remaining_uom_qty |-> remaining,
     remaining_qty |-> compute_quantity(remaining, "dozen", "unit")]

InitComputeState ==
    /\ today \in 1..MaxDay
    /\ \E confirmed \in BOOLEAN, v \in 0..(MaxDay + 1), state \in States :
         bo = 1 :> [new_order(v, 1) EXCEPT !.confirmed = confirmed, !.state = state]
    /\ \E r1 \in RemainingQuantities, r2 \in RemainingQuantities :
         bol = (1 :> line_with_remaining(1, 1, r1))
               @@ (2 :> line_with_remaining(1, 2, r2))
               @@ (3 :> new_section(1))
    /\ so = <<>>
    /\ wiz = NoWizard
    /\ seq = [calls |-> 0, number |-> 0]
    /\ last = NoOutcome

\* _compute_state runs on order o
compute_state_of(o) ==
    /\ bo' = recompute_states(bo, bol, today, {o})
    /\ last' = Outcome("_compute_state", o, TRUE)
    /\ UNCHANGED <<bol, so, wiz, seq, today>>

NextComputeState == \E o \in DOMAIN bo : compute_state_of(o)

SpecComputeState == InitComputeState /\ [][NextComputeState]_vars

-----------------------------------------------------------------------------
(* BlanketOrder.unlink, on the single order o: the lines of the order go   *)
(* with it (order_id is ondelete cascade), the sale order lines and the    *)
(* wizard that referenced them reference nothing any more                  *)

\* unlink raises for order o
unlink_rejected(o, B, L, S) ==
    \/ B[o].state \notin {"draft", "expired"}
    \/ check_active_orders(o, L, S)

\* the sale orders S once the blanket lines ls are deleted
without_lines(S, ls) ==
    [i \in DOMAIN S |->
        [S[i] EXCEPT !.order_line =
            [j \in DOMAIN S[i].order_line |->
                IF S[i].order_line[j].blanket_order_line \in ls
                THEN [S[i].order_line[j] EXCEPT !.blanket_order_line = 0]
                ELSE S[i].order_line[j]]]]

unlink(o) ==
    /\ o \in DOMAIN bo
    /\ IF unlink_rejected(o, bo, bol, so)
       THEN Raises("unlink", o)
       ELSE /\ bo'  = [x \in DOMAIN bo \ {o} |-> bo[x]]
            /\ bol' = [l \in DOMAIN bol \ LinesOf(o, bol) |-> bol[l]]
            /\ so'  = without_lines(so, LinesOf(o, bol))
            /\ wiz' = [blanket_order_id |->
                           IF wiz.blanket_order_id = o THEN 0
                           ELSE wiz.blanket_order_id,
                       line_ids |->
                           [l \in DOMAIN wiz.line_ids \ LinesOf(o, bol) |->
                               wiz.line_ids[l]]]
            /\ last' = Outcome("unlink", o, TRUE)
            /\ UNCHANGED <<seq, today>>

\* the life of the order and of sale orders created directly against its
\* line 1, up to the deletion of the order
NextUnlink ==
    \/ \E o \in DOMAIN bo : action_confirm(o)
    \/ \E o \in DOMAIN bo : action_cancel(o)
    \/ \E o \in DOMAIN bo : set_to_draft(o)
    \/ \E qty \in Quantities \ {0} : sale_order_create(1, 1, qty)
    \/ \E i \in DOMAIN so : sale_order_confirm(i)
    \/ \E i \in DOMAIN so : sale_order_cancel(i)
    \/ \E o \in DOMAIN bo : unlink(o)

SpecUnlink == Init /\ [][NextUnlink]_vars

-----------------------------------------------------------------------------
(* Allocation only: the order is confirmed and sale orders are created     *)
(* from it through the wizard, nothing else happens and the day stays      *)

NextAllocate ==
    \/ \E o \in DOMAIN bo : action_confirm(o)
    \/ \E o \in DOMAIN bo : wizard_create(o)
    \/ \E l \in DOMAIN bol, qty \in Quantities : wizard_line_write(l, qty)
    \/ create_sale_order

SpecAllocate == Init /\ [][NextAllocate]_vars

-----------------------------------------------------------------------------
(* Units of measure: an order for 2 dozen of product 1, and sale orders    *)
(* created directly against its line for 1 or 12, in units or in dozens    *)

UomQuantities == {Unit, 12 * Unit}

\* sale.order.create with one line referencing blanket line l, in unit uom
sale_order_create_in(l, p, uom, qty) ==
    /\ Len(so) < MaxSO
    /\ l \in DOMAIN bol
    /\ ~bol[l].display_type
    /\ LET order == [state |-> "draft", partner_id |-> bo[bol[l].order_id].partner_id,
                     order_line |-> <<sale_line(l, p, uom, qty, bol[l].price_unit)>>]
       IN  /\ so'  = Append(so, order)
           /\ bol' = lines_after(so', {l})
           /\ bo'  = orders_after(bo, so', {l})
    /\ last' = Outcome("sale_order_create", 0, TRUE)
    /\ UNCHANGED <<wiz, seq, today>>

InitUom ==
    /\ today = 1
    /\ bo = 1 :> new_order(MaxDay, 1)
    /\ bol = 1 :> new_line(1, 1, "dozen", 2 * Unit, 1)
    /\ so = <<>>
    /\ wiz = NoWizard
    /\ seq = [calls |-> 0, number |-> 0]
    /\ last = NoOutcome

NextUom ==
    \/ \E o \in DOMAIN bo : action_confirm(o)
    \/ \E uom \in {"unit", "dozen"}, qty \in UomQuantities :
         sale_order_create_in(1, 1, uom, qty)
    \/ \E i \in DOMAIN so : sale_order_confirm(i)
    \/ \E i \in DOMAIN so : sale_order_cancel(i)

SpecUom == InitUom /\ [][NextUom]_vars

-----------------------------------------------------------------------------
(* Two blanket orders of two customers, and the wizard opened on blanket   *)
(* lines (active_model sale.blanket.order.line) as well as on an order     *)

\* the wizard is opened on the blanket lines ls, active_id naming the blanket
\* order o, or no blanket order that exists (0)
wizard_create_lines(ls, o) ==
    /\ ls # {}
    /\ ls \subseteq DOMAIN bol
    /\ o \in DOMAIN bo \cup {0}
    /\ LET B == swept(bo, bol, today)
       IN  IF /\ o # 0 => default_order_ok(B, o)
              /\ check_valid_blanket_order_line(B, bol, ls)
           THEN /\ bo'  = B
                /\ wiz' = [blanket_order_id |-> o, line_ids |-> default_lines(bol, ls)]
                /\ last' = Outcome("wizard_create", o, TRUE)
                /\ UNCHANGED <<bol, so, seq, today>>
           ELSE Raises("wizard_create", o)

InitWizard ==
    /\ today = 1
    /\ bo = (1 :> new_order(MaxDay, 1)) @@ (2 :> new_order(MaxDay, 2))
    /\ bol = (1 :> new_line(1, 1, "unit", 2 * Unit, 1))
             @@ (2 :> new_line(2, 2, "unit", Unit, 2))
    /\ so = <<>>
    /\ wiz = NoWizard
    /\ seq = [calls |-> 0, number |-> 0]
    /\ last = NoOutcome

NextWizard ==
    \/ \E o \in DOMAIN bo : action_confirm(o)
    \/ \E o \in DOMAIN bo : wizard_create(o)
    \/ \E ls \in SUBSET DOMAIN bol, o \in DOMAIN bo \cup {0} : wizard_create_lines(ls, o)
    \/ \E l \in DOMAIN bol, qty \in Quantities : wizard_line_write(l, qty)
    \/ create_sale_order

SpecWizard == InitWizard /\ [][NextWizard]_vars

-----------------------------------------------------------------------------
(* Changes of a blanket order and its lines after creation: the original   *)
(* quantity of a line and the validity date are written, a section is      *)
(* added and removed.  Each write triggers the computed fields depending   *)
(* on what it changes.                                                     *)

\* BlanketOrder._compute_uom_qty: remaining_uom_qty of order o, the sum over
\* all its lines
compute_uom_qty(o, L) ==
    SumOver(LinesOf(o, L), [l \in DOMAIN L |-> L[l].remaining_uom_qty], 0)

\* BlanketOrderLine.write of original_uom_qty on product line l
line_write_original(l, qty) ==
    /\ l \in DOMAIN bol
    /\ ~bol[l].display_type
    /\ qty > 0
    /\ bol' = recompute_lines([bol EXCEPT ![l].original_uom_qty = qty], so, {l})
    /\ bo'  = recompute_states(bo, bol', today, {bol[l].order_id})
    /\ last' = Outcome("line_write", 0, TRUE)
    /\ UNCHANGED <<so, wiz, seq, today>>

\* write of validity_date on order o
order_write_validity(o, d) ==
    /\ o \in DOMAIN bo
    /\ bo' = recompute_states([bo EXCEPT ![o].validity_date = d], bol, today, {o})
    /\ last' = Outcome("order_write", o, TRUE)
    /\ UNCHANGED <<bol, so, wiz, seq, today>>

\* BlanketOrderLine.create of a section of order o, which gets id 3
section_create(o) ==
    /\ o \in DOMAIN bo
    /\ 3 \notin DOMAIN bol
    /\ bol' = bol @@ (3 :> new_section(o))
    /\ bo'  = recompute_states(bo, bol', today, {o})
    /\ last' = Outcome("section_create", o, TRUE)
    /\ UNCHANGED <<so, wiz, seq, today>>

\* unlink of the section l
section_unlink(l) ==
    /\ l \in DOMAIN bol
    /\ bol[l].display_type
    /\ bol' = [x \in DOMAIN bol \ {l} |-> bol[x]]
    /\ bo'  = recompute_states(bo, bol', today, {bol[l].order_id})
    /\ last' = Outcome("section_unlink", bol[l].order_id, TRUE)
    /\ UNCHANGED <<so, wiz, seq, today>>

InitEdit ==
    /\ today = 1
    /\ bo = 1 :> new_order(MaxDay, 1)
    /\ bol = 1 :> new_line(1, 1, "unit", Unit, 1)
    /\ so = <<>>
    /\ wiz = NoWizard
    /\ seq = [calls |-> 0, number |-> 0]
    /\ last = NoOutcome

NextEdit ==
    \/ \E o \in DOMAIN bo : action_confirm(o)
    \/ \E o \in DOMAIN bo : action_cancel(o)
    \/ \E o \in DOMAIN bo : set_to_draft(o)
    \/ expire_orders
    \/ Tick
    \/ \E qty \in Quantities \ {0} : sale_order_create(1, 1, qty)
    \/ \E i \in DOMAIN so : sale_order_confirm(i)
    \/ \E i \in DOMAIN so : sale_order_cancel(i)
    \/ \E l \in DOMAIN bol, qty \in Quantities \ {0} : line_write_original(l, qty)
    \/ \E o \in DOMAIN bo, d \in 1..(MaxDay + 1) : order_write_validity(o, d)
    \/ \E o \in DOMAIN bo : section_create(o)
    \/ \E l \in DOMAIN bol : section_unlink(l)

SpecEdit == InitEdit /\ [][NextEdit]_vars

-----------------------------------------------------------------------------
(* The lifecycle methods called on a recordset of several orders.  Two     *)
(* orders of two customers with a product line each; the second order runs *)
(* out a day before the first.                                             *)

\* the elements of the sequence s
Range(s) == { s[i] : i \in DOMAIN s }

\* the recordsets of one or two of the orders B, in their order of iteration
Recordsets(B) ==
    { os \in UNION { [1..n -> DOMAIN B] : n \in 1..2 } :
        \A i, j \in DOMAIN os : i # j => os[i] # os[j] }

\* the record of a call on the recordset os: written is the set of orders the
\* call had written to when it returned or raised
SetOutcome(op, os, ok, written) ==
    [op |-> op, id |-> 0, ok |-> ok, rep |-> FALSE, ids |-> os, written |-> written]

\* the orders of B that differ from what they are now
written_orders(B) == { o \in DOMAIN bo : o \notin DOMAIN B \/ B[o] # bo[o] }

RECURSIVE confirm_loop(_, _, _, _)
\* the loop of action_confirm over the orders os, once _validate has passed:
\* the orders and the sequence after it, outs[o] being what next_by_code does
\* for order o
confirm_loop(os, B, sq, outs) ==
    IF os = <<>> THEN [B |-> B, seq |-> sq]
    ELSE LET o == Head(os)
             number == outs[o] = "number"
             name == IF number THEN sq.number + 1 ELSE fallback_name(o)
         IN  IF confirm_skips(B[o]) THEN confirm_loop(Tail(os), B, sq, outs)
             ELSE confirm_loop(
                      Tail(os),
                      recompute_states(
                          [B EXCEPT ![o].confirmed = TRUE, ![o].name = name],
                          bol, today, {o}),
                      [calls  |-> sq.calls + 1,
                       number |-> IF number THEN sq.number + 1 ELSE sq.number],
                      outs)

\* the mutation of validate_all that validates the first order of the set only
validate_first(os) == validate(bo[os[1]], os[1], bol, today)

\* self._validate() on the recordset os
validate_all(os) == \A o \in Range(os) : validate(bo[o], o, bol, today)

\* action_confirm on the recordset os
action_confirm_set(os) ==
    /\ os \in Recordsets(bo)
    /\ IF ~validate_all(os)
       THEN /\ last' = SetOutcome("action_confirm", os, FALSE, {})
            /\ UNCHANGED <<bo, bol, so, wiz, seq, today>>
       ELSE \E outs \in [Range(os) -> SeqOutcomes] :
              LET r == confirm_loop(os, bo, seq, outs)
              IN  /\ r.seq.calls <= MaxSeq
                  /\ bo'  = r.B
                  /\ seq' = r.seq
                  /\ last' = SetOutcome("action_confirm", os, TRUE, written_orders(r.B))
                  /\ UNCHANGED <<bol, so, wiz, today>>

RECURSIVE cancel_loop(_, _)
\* the loop of action_cancel over the orders os: whether it raised, and the
\* orders as it had written them by then
cancel_loop(os, B) ==
    IF os = <<>> THEN [raised |-> FALSE, B |-> B]
    ELSE LET o == Head(os)
         IN  IF check_active_orders(o, bol, so) THEN [raised |-> TRUE, B |-> B]
             ELSE cancel_loop(Tail(os),
                              IF B[o].state # "expired"
                              THEN [B EXCEPT ![o].state = "expired"]
                              ELSE B)

\* action_cancel on the recordset os
action_cancel_set(os) ==
    /\ os \in Recordsets(bo)
    /\ LET r == cancel_loop(os, bo)
       IN  IF r.raised
           THEN /\ last' = SetOutcome("action_cancel", os, FALSE, written_orders(r.B))
                /\ UNCHANGED <<bo, bol, so, wiz, seq, today>>
           ELSE /\ bo' = r.B
                /\ last' = SetOutcome("action_cancel", os, TRUE, written_orders(r.B))
                /\ UNCHANGED <<bol, so, wiz, seq, today>>

\* unlink on the recordset os: every order is checked before any is deleted
unlink_set(os) ==
    /\ os \in Recordsets(bo)
    /\ IF \E o \in Range(os) : unlink_rejected(o, bo, bol, so)
       THEN /\ last' = SetOutcome("unlink", os, FALSE, {})
            /\ UNCHANGED <<bo, bol, so, wiz, seq, today>>
       ELSE LET ls == UNION { LinesOf(o, bol) : o \in Range(os) }
            IN  /\ bo'  = [x \in DOMAIN bo \ Range(os) |-> bo[x]]
                /\ bol' = [l \in DOMAIN bol \ ls |-> bol[l]]
                /\ so'  = without_lines(so, ls)
                /\ last' = SetOutcome("unlink", os, TRUE, Range(os))
                /\ UNCHANGED <<wiz, seq, today>>

InitSets ==
    /\ today = 1
    /\ bo = (1 :> new_order(MaxDay + 1, 1)) @@ (2 :> new_order(MaxDay, 2))
    /\ bol = (1 :> new_line(1, 1, "unit", Unit, 1))
             @@ (2 :> new_line(2, 2, "unit", Unit, 1))
    /\ so = <<>>
    /\ wiz = NoWizard
    /\ seq = [calls |-> 0, number |-> 0]
    /\ last = NoOutcome

NextSets ==
    \/ \E os \in Recordsets(bo) : action_confirm_set(os)
    \/ \E os \in Recordsets(bo) : action_cancel_set(os)
    \/ \E os \in Recordsets(bo) : unlink_set(os)
    \/ \E l \in DOMAIN bol : sale_order_create(l, bol[l].product_id, Unit)
    \/ \E i \in DOMAIN so : sale_order_confirm(i)
    \/ \E i \in DOMAIN so : sale_order_cancel(i)
    \/ Tick

SpecSets == InitSets /\ [][NextSets]_vars

-----------------------------------------------------------------------------
(* The quantities a user may enter on a wizard line: qty is a float with   *)
(* no digits, so negative quantities and thousandths can be entered.  The  *)
(* lines are used up by sale orders while the wizard is open.              *)

WizardQuantities == {-Unit, -1, 0, 1, 2, Unit, 2 * Unit}

NextQty ==
    \/ \E o \in DOMAIN bo : action_confirm(o)
    \/ \E o \in DOMAIN bo : wizard_create(o)
    \/ \E l \in DOMAIN bol, qty \in WizardQuantities : wizard_line_write(l, qty)
    \/ \E qty \in Quantities \ {0} : sale_order_create(1, 1, qty)
    \/ \E i \in DOMAIN so : sale_order_cancel(i)

SpecQty == Init /\ [][NextQty]_vars

-----------------------------------------------------------------------------
(* Sale orders against the line of 2 dozen in units, which convert, and in *)
(* kg, for which _compute_quantity raises                                  *)

NextConversion ==
    \/ \E o \in DOMAIN bo : action_confirm(o)
    \/ \E uom \in {"unit", "kg"}, qty \in UomQuantities :
         sale_order_create_in(1, 1, uom, qty)
    \/ \E i \in DOMAIN so : sale_order_cancel(i)

SpecConversion == InitUom /\ [][NextConversion]_vars

-----------------------------------------------------------------------------
(* Several wizards open at a time, each submitted in a transaction of its  *)
(* own: here wiz maps each wizard to its record.  The remaining quantity   *)
(* of a wizard line is a related field, read from the blanket line when    *)
(* the wizard is submitted.                                                *)

Wizards == {1, 2}

\* wizard w is opened on blanket order o
wizard_open(w, o) ==
    /\ o \in DOMAIN bo
    /\ LET B == swept(bo, bol, today)
       IN  IF /\ default_order_ok(B, o)
              /\ LinesOf(o, bol) # {} => check_valid_blanket_order_line(B, bol, LinesOf(o, bol))
           THEN /\ bo'  = B
                /\ wiz' = [wiz EXCEPT ![w] =
                              [blanket_order_id |-> o,
                               line_ids |-> default_lines(bol, LinesOf(o, bol))]]
                /\ last' = Outcome("wizard_create", o, TRUE)
                /\ UNCHANGED <<bol, so, seq, today>>
           ELSE Raises("wizard_create", o)

\* the user sets the quantity of the line of wizard w for blanket line l
wizard_set_qty(w, l, qty) ==
    /\ l \in DOMAIN wiz[w].line_ids
    /\ IF check_qty_limits(qty, bol[l].remaining_uom_qty)
       THEN /\ wiz' = [wiz EXCEPT ![w].line_ids[l] = qty]
            /\ last' = Outcome("wizard_line_write", 0, TRUE)
            /\ UNCHANGED <<bo, bol, so, seq, today>>
       ELSE Raises("wizard_line_write", 0)

\* create_sale_order of wizard w
wizard_submit(w) ==
    /\ wiz[w] # NoWizard
    /\ IF create_rejected(wiz[w], bo, bol)
       THEN Raises("create_sale_order", wiz[w].blanket_order_id)
       ELSE LET new == created_orders(wiz[w], bo, bol,
                                      customers(bo, bol, valid_lines(wiz[w])))
            IN  /\ Len(so) + Len(new) <= MaxSO
                /\ so'  = so \o new
                /\ bol' = lines_after(so', valid_lines(wiz[w]))
                /\ bo'  = orders_after(bo, so', valid_lines(wiz[w]))
                /\ last' = Outcome("create_sale_order", wiz[w].blanket_order_id, TRUE)
                /\ UNCHANGED <<wiz, seq, today>>

InitWizards ==
    /\ today = 1
    /\ bo = 1 :> new_order(MaxDay, 1)
    /\ bol = (1 :> new_line(1, 1, "unit", 2 * Unit, 1))
             @@ (2 :> new_line(1, 2, "unit", Unit, 1))
    /\ so = <<>>
    /\ wiz = [w \in Wizards |-> NoWizard]
    /\ seq = [calls |-> 0, number |-> 0]
    /\ last = NoOutcome

NextWizards ==
    \/ \E o \in DOMAIN bo : action_confirm(o)
    \/ \E w \in Wizards, o \in DOMAIN bo : wizard_open(w, o)
    \/ \E w \in Wizards, l \in DOMAIN bol, qty \in Quantities : wizard_set_qty(w, l, qty)
    \/ \E w \in Wizards : wizard_submit(w)
    \/ \E i \in DOMAIN so : sale_order_cancel(i)

SpecWizards == InitWizards /\ [][NextWizards]_vars

-----------------------------------------------------------------------------
(* Properties *)

\* the sale order lines (order index, line index) referencing blanket line l
DrawDowns(l) ==
    { ij \in SaleLineIds(so) : so[ij[1]].order_line[ij[2]].blanket_order_line = l }

\* the quantity of sale order line ij
DrawDownQty(ij) == so[ij[1]].order_line[ij[2]].product_uom_qty

\* C1: with today held fixed, the stored state of every blanket order equals
\* the derivation rule applied to its confirmed flag, its validity date and
\* the sum of the remaining quantities of its product lines, whatever the
\* operations that led there.
C1_StoredStateIsDerived ==
    \A o \in DOMAIN bo : bo[o].state = compute_state(bo[o], o, bol, today)

\* the sum of the remaining quantities of the two product lines of order 1
C2_Sum == bol[1].remaining_uom_qty + bol[2].remaining_uom_qty

\* C2 as stated: _compute_state gives draft when not confirmed, else expired
\* when a validity date is set and is not after today, else done when the sum
\* of the remaining quantities of the product lines is zero, else open.
C2_DoneWhenSumIsZero ==
    last.op = "_compute_state" =>
        bo[1].state =
            IF ~bo[1].confirmed THEN "draft"
            ELSE IF bo[1].validity_date # 0 /\ bo[1].validity_date <= today
                 THEN "expired"
            ELSE IF C2_Sum = 0 THEN "done"
            ELSE "open"

\* C2, amended: _compute_state gives draft when not confirmed, else expired
\* when a validity date is set and is not after today, else done when the sum
\* of the remaining quantities of the product lines rounds to zero at the
\* two decimals of "Product Unit of Measure" (it is below 0.005), else open.
C2_DoneWhenSumRoundsToZero ==
    last.op = "_compute_state" =>
        bo[1].state =
            IF ~bo[1].confirmed THEN "draft"
            ELSE IF bo[1].validity_date # 0 /\ bo[1].validity_date <= today
                 THEN "expired"
            ELSE IF 2 * C2_Sum < Unit \div 100 THEN "done"
            ELSE "open"

\* _compute_state has made done an order of which 0.003 remains
C2_Witness ==
    /\ last.op = "_compute_state"
    /\ bo[1].state = "done"
    /\ C2_Sum = 3

\* C3: the remaining quantity of every blanket line is never negative, in its
\* own unit and in the base unit, however many sale order lines reference the
\* line and however large their total; nor is the remaining quantity the
\* standalone line model computes from the same quantities.
C3_RemainingNonNegative ==
    \A l \in DOMAIN bol :
        /\ bol[l].remaining_uom_qty >= 0
        /\ bol[l].remaining_qty >= 0
        /\ compute_remaining_qty(bol[l].display_type, bol[l].original_uom_qty,
                                 bol[l].ordered_uom_qty) >= 0

\* more is ordered from line 1 than its original quantity, by sale orders
\* created directly, and nothing remains
C3_Witness ==
    /\ bol[1].ordered_uom_qty > bol[1].original_uom_qty
    /\ bol[1].remaining_uom_qty = 0
    /\ last.op = "sale_order_create"

\* the sale order lines that C4 says count for blanket line l
C4_Counted(l) ==
    { ij \in DrawDowns(l) :
        /\ so[ij[1]].state # "cancel"
        /\ so[ij[1]].order_line[ij[2]].product_id = bol[l].product_id }

\* C4: the ordered quantity of every product line is the sum of the
\* quantities of the sale order lines that reference it, whose sale order is
\* not cancelled and whose product is the line's, and its remaining quantity
\* is max(0, original - ordered).
C4_OrderedIsSumOfCounted ==
    \A l \in DOMAIN bol :
        ~bol[l].display_type =>
            /\ bol[l].ordered_uom_qty =
                 SumOver(C4_Counted(l), [ij \in C4_Counted(l) |-> DrawDownQty(ij)], 0)
            /\ bol[l].remaining_uom_qty =
                 IF bol[l].original_uom_qty > bol[l].ordered_uom_qty
                 THEN bol[l].original_uom_qty - bol[l].ordered_uom_qty ELSE 0

\* line 1 is referenced by a line of its product in a cancelled sale order
\* and by a line of another product, and nothing is ordered from it
C4_Witness ==
    /\ \E ij \in DrawDowns(1) :
         /\ so[ij[1]].state = "cancel"
         /\ so[ij[1]].order_line[ij[2]].product_id = bol[1].product_id
    /\ \E ij \in DrawDowns(1) :
         /\ so[ij[1]].state # "cancel"
         /\ so[ij[1]].order_line[ij[2]].product_id # bol[1].product_id
    /\ bol[1].ordered_uom_qty = 0
    /\ bol[1].remaining_uom_qty = bol[1].original_uom_qty


\* create_sale_order is called (and returns or raises) on the wizard of an
\* open blanket order
C5_Call ==
    /\ last'.op = "create_sale_order"
    /\ wiz.blanket_order_id \in DOMAIN bo
    /\ bo[wiz.blanket_order_id].state = "open"

\* some wizard line asks for more than the remaining quantity of its line
C5_Exceeds ==
    \E l \in DOMAIN wiz.line_ids : wiz.line_ids[l] > bol[l].remaining_uom_qty

\* every wizard line asks for exactly the remaining quantity of its line
C5_Exact ==
    /\ DOMAIN wiz.line_ids # {}
    /\ \A l \in DOMAIN wiz.line_ids : wiz.line_ids[l] = bol[l].remaining_uom_qty

\* the call has created one sale order, with a line of the quantity asked for
\* each wizard line that asks for something
C5_Created ==
    /\ last'.ok
    /\ Len(so') = Len(so) + 1
    /\ \A l \in DOMAIN wiz.line_ids :
         wiz.line_ids[l] > 0 =>
             \E j \in DOMAIN so'[Len(so')].order_line :
                 /\ so'[Len(so')].order_line[j].blanket_order_line = l
                 /\ so'[Len(so')].order_line[j].product_uom_qty = wiz.line_ids[l]

C6_RejectedChangesNothing ==
    [][last'.op = "create_sale_order" /\ (C5_Exceeds \/ ~last'.ok) =>
         /\ ~last'.ok
         /\ so' = so
         /\ bol' = bol
         /\ bo' = bo]_vars

\* create_sale_order has raised for a line of which part was ordered before:
\* the wizard asks for more than remains, and the earlier sale order stands
C6_Witness ==
    /\ last.op = "create_sale_order"
    /\ ~last.ok
    /\ \E l \in DOMAIN wiz.line_ids :
         /\ wiz.line_ids[l] > bol[l].remaining_uom_qty
         /\ bol[l].remaining_uom_qty > 0
         /\ bol[l].ordered_uom_qty > 0
         /\ \E ij \in DrawDowns(l) : so[ij[1]].state # "cancel"


\* sale order i, not cancelled before, is cancelled by this step
C7_Cancels(i) ==
    /\ i \in DOMAIN so
    /\ so[i].state # "cancel"
    /\ so' = [so EXCEPT ![i].state = "cancel"]

\* the quantity sale order i carries against blanket line l: that of its
\* lines that reference l with the product of l
C7_Carried(i, l) ==
    LET js == { j \in DOMAIN so[i].order_line :
                  /\ so[i].order_line[j].blanket_order_line = l
                  /\ so[i].order_line[j].product_id = bol[l].product_id }
    IN  SumOver(js, [j \in js |-> so[i].order_line[j].product_uom_qty], 0)

\* C7 as stated: cancelling a sale order that carries quantity q against a
\* blanket line increases the remaining quantity of the line by exactly q,
\* whatever the other sale orders against the line.
C7_RestoresExactly ==
    [][\A i \in DOMAIN so, l \in DOMAIN bol :
         C7_Cancels(i) /\ C7_Carried(i, l) > 0 =>
             bol'[l].remaining_uom_qty =
                 bol[l].remaining_uom_qty + C7_Carried(i, l)]_vars

\* C7, amended: cancelling a sale order that carries quantity q against a
\* blanket line lowers the ordered quantity of the line by q and makes its
\* remaining quantity max(0, original - ordered); the remaining quantity
\* increases by exactly q when no more than the original quantity was ordered
\* before, and by less when more was.
C7_RestoresUpToOriginal ==
    [][\A i \in DOMAIN so, l \in DOMAIN bol :
         C7_Cancels(i) /\ C7_Carried(i, l) > 0 =>
             LET q == C7_Carried(i, l)
                 left == bol[l].original_uom_qty - bol'[l].ordered_uom_qty
             IN  /\ bol'[l].ordered_uom_qty = bol[l].ordered_uom_qty - q
                 /\ bol'[l].remaining_uom_qty = IF left > 0 THEN left ELSE 0
                 /\ IF bol[l].ordered_uom_qty <= bol[l].original_uom_qty
                    THEN bol'[l].remaining_uom_qty = bol[l].remaining_uom_qty + q
                    ELSE bol'[l].remaining_uom_qty < bol[l].remaining_uom_qty + q]_vars

\* a sale order carrying a quantity against line 1 has just been cancelled,
\* while another sale order still orders from the line
C7_Witness ==
    /\ last.op = "sale_order_cancel"
    /\ \E ij \in DrawDowns(1) :
         /\ so[ij[1]].state = "cancel"
         /\ so[ij[1]].order_line[ij[2]].product_id = bol[1].product_id
         /\ DrawDownQty(ij) > 0
    /\ bol[1].ordered_uom_qty > 0
    /\ bol[1].remaining_uom_qty > 0

\* C8: the stored state of a blanket order only ever changes from draft to
\* open, from open to done, from open to expired and from expired to draft.
C8_OnlyFourTransitions ==
    [][\A o \in DOMAIN bo :
         bo'[o].state # bo[o].state =>
             <<bo[o].state, bo'[o].state>> \in
                 { <<"draft", "open">>, <<"open", "done">>,
                   <<"open", "expired">>, <<"expired", "draft">> }]_vars

\* what C9 says action_confirm requires of order o
C9_Valid(o) ==
    /\ bo[o].validity_date # 0
    /\ bo[o].validity_date > today
    /\ bo[o].partner_id # 0
    /\ \E l \in DOMAIN bol : bol[l].order_id = o /\ ~bol[l].display_type
    /\ \A l \in DOMAIN bol :
         bol[l].order_id = o /\ ~bol[l].display_type =>
             bol[l].price_unit > 0 /\ bol[l].original_uom_qty > 0

\* C9: action_confirm on an order that is not confirmed returns only if the
\* validity date is present and after today, a customer is set, there is a
\* product line and every product line has a price and a quantity above zero;
\* else it raises, the order stays unconfirmed with the name it had and state
\* draft, and the sequence is not called.
C9_ConfirmValidates ==
    [][\A o \in DOMAIN bo :
         last'.op = "action_confirm" /\ last'.id = o /\ ~bo[o].confirmed =>
             /\ last'.ok <=> C9_Valid(o)
             /\ ~last'.ok => /\ ~bo'[o].confirmed
                             /\ bo'[o].name = bo[o].name
                             /\ bo'[o].state = "draft"
                             /\ seq' = seq]_vars

\* C10: action_confirm called on an order right after an action_confirm on
\* the same order that returned, returns too and leaves the state, the
\* confirmed flag and the name of the order as the first call left them, and
\* does not call the sequence: it was called once.
C10_ConfirmTwice ==
    [][\A o \in DOMAIN bo :
         last'.op = "action_confirm" /\ last'.id = o /\ last'.rep =>
             /\ last'.ok
             /\ bo'[o].state = bo[o].state
             /\ bo'[o].confirmed = bo[o].confirmed
             /\ bo'[o].name = bo[o].name
             /\ seq' = seq]_vars

\* action_confirm has returned twice in a row on order 1, which the first
\* call confirmed with the only call of the sequence
C10_Witness ==
    /\ last.op = "action_confirm"
    /\ last.rep
    /\ last.ok
    /\ bo[1].confirmed
    /\ bo[1].state = "open"
    /\ seq.calls = 1


\* C11: action_confirm on an order whose confirmed flag is set returns and
\* changes nothing, whatever the state of the order: it never raises.
C11_ConfirmedIsNoOp ==
    [][\A o \in DOMAIN bo :
         last'.op = "action_confirm" /\ last'.id = o /\ bo[o].confirmed =>
             /\ last'.ok
             /\ bo' = bo
             /\ seq' = seq]_vars


\* a sale order in a state other than cancel references a line of order o
C12_NonCancelled(o) ==
    \E ij \in SaleLineIds(so) :
        /\ so[ij[1]].state # "cancel"
        /\ so[ij[1]].order_line[ij[2]].blanket_order_line \in DOMAIN bol
        /\ bol[so[ij[1]].order_line[ij[2]].blanket_order_line].order_id = o

\* C12: action_cancel raises and leaves the state of the order as it is
\* whenever a sale order in a state other than cancel references a line of
\* the order; it returns and the order is expired only when every sale order
\* referencing it is cancelled or there is none.
C12_CancelGuard ==
    [][\A o \in DOMAIN bo :
         last'.op = "action_cancel" /\ last'.id = o =>
             IF C12_NonCancelled(o)
             THEN ~last'.ok /\ bo'[o].state = bo[o].state
             ELSE last'.ok /\ bo'[o].state = "expired"]_vars

\* C13: set_to_draft raises whenever a sale order in a state other than
\* cancel references a line of the order; when it returns, the confirmed flag
\* of the order is cleared and its state is draft.
C13_ResetGuard ==
    [][\A o \in DOMAIN bo :
         last'.op = "set_to_draft" /\ last'.id = o =>
             IF C12_NonCancelled(o)
             THEN ~last'.ok
             ELSE last'.ok /\ ~bo'[o].confirmed /\ bo'[o].state = "draft"]_vars


\* C14: unlink of a blanket order raises when the state of the order is open
\* or done, and in every state when a sale order in a state other than cancel
\* references a line of the order; an unlink that raises deletes nothing.
C14_UnlinkGuard ==
    [][\A o \in DOMAIN bo :
         last'.op = "unlink" /\ last'.id = o =>
             /\ (bo[o].state \in {"open", "done"} \/ C12_NonCancelled(o))
                    => ~last'.ok
             /\ ~last'.ok => bo' = bo /\ bol' = bol /\ so' = so]_vars


\* C15: create_sale_order raises and creates no sale order whenever, when it
\* runs, a blanket line of the wizard belongs to a blanket order whose state
\* is not open, also when the order was open as the wizard was opened and
\* was cancelled, reset or expired since.
C15_RejectedUnlessOpen ==
    [][(/\ last'.op = "create_sale_order"
        /\ \E l \in DOMAIN wiz.line_ids : bo[bol[l].order_id].state # "open")
         => ~last'.ok /\ so' = so]_vars


\* the product lines of order 1 of which something remains
C16_Unconsumed ==
    { l \in DOMAIN bol' :
        /\ bol'[l].order_id = 1
        /\ ~bol'[l].display_type
        /\ bol'[l].ordered_uom_qty < bol'[l].original_uom_qty }

\* C16: with nothing but allocations on a confirmed order whose validity date
\* is in the future, the state of the order is done once the allocations have
\* consumed the original quantity of every product line and open while
\* something remains of a product line, and sale_count grows by one with
\* every allocation that succeeds and only then: it is the number of
\* allocations that succeeded.
C16_DoneWhenConsumed ==
    [][/\ bo'[1].confirmed =>
            bo'[1].state = IF C16_Unconsumed = {} THEN "done" ELSE "open"
       /\ sale_count(1, bol', so') =
            IF last'.op = "create_sale_order" /\ last'.ok
            THEN sale_count(1, bol, so) + 1
            ELSE sale_count(1, bol, so)
       /\ sale_count(1, bol', so') = Len(so')]_vars

\* two allocations have consumed all of both product lines: the order is
\* done and counts two sale orders
C16_Witness ==
    /\ last.op = "create_sale_order"
    /\ last.ok
    /\ bo[1].state = "done"
    /\ \A l \in {1, 2} : bol[l].ordered_uom_qty = bol[l].original_uom_qty
    /\ Len(so) = 2
    /\ sale_count(1, bol, so) = 2


\* C17: the name of an order is assigned at most once: a name that is
\* assigned never changes and no further sequence number is drawn for its
\* order, whatever confirm, cancel and reset to draft follow; an order that is
\* not confirmed keeps the placeholder name and draws no sequence number.
C17_NameAssignedOnce ==
    [][\A o \in DOMAIN bo :
         /\ bo[o].name # 0 => bo'[o].name = bo[o].name /\ seq' = seq
         /\ bo'[o].name = 0 => seq' = seq]_vars


\* C18 as stated: in every reachable state an order has a name other than
\* the placeholder if and only if its confirmed flag is set.
C18_NameIffConfirmed ==
    \A o \in DOMAIN bo : bo[o].name # 0 <=> bo[o].confirmed

\* C18, amended: an order whose confirmed flag is set has a name other than
\* the placeholder, and a name is only assigned by the step that sets the
\* confirmed flag; the flag is only cleared by set_to_draft, which keeps the
\* name, so that an order reset to draft has a name and is not confirmed.
C18_ConfirmedHasName ==
    [][\A o \in DOMAIN bo :
         /\ bo'[o].confirmed => bo'[o].name # 0
         /\ bo[o].name = 0 /\ bo'[o].name # 0 =>
                ~bo[o].confirmed /\ bo'[o].confirmed
         /\ bo[o].confirmed /\ ~bo'[o].confirmed =>
                last'.op = "set_to_draft" /\ bo'[o].name = bo[o].name]_vars

\* set_to_draft has cleared the confirmed flag of order 1, which keeps the
\* name its confirmation gave it
C18_Witness ==
    /\ last.op = "set_to_draft"
    /\ ~bo[1].confirmed
    /\ bo[1].state = "draft"
    /\ bo[1].name # 0


\* C19: after expire_orders no order has stored state open with a validity
\* date that is not after today: the sweep has made every such order
\* expired; and running it once more at once would change no order.
C19_SweepExpiresAndIsIdempotent ==
    [][last'.op = "expire_orders" =>
         /\ \A o \in DOMAIN bo :
              IF /\ bo[o].state = "open"
                 /\ bo[o].validity_date # 0
                 /\ bo[o].validity_date <= today
              THEN bo'[o].state = "expired"
              ELSE bo'[o] = bo[o]
         /\ swept(bo', bol', today') = bo']_vars

\* the sweep has just expired order 1, which was confirmed before its
\* validity date
C19_Witness ==
    /\ last.op = "expire_orders"
    /\ bo[1].confirmed
    /\ bo[1].state = "expired"
    /\ bo[1].validity_date = today
    /\ expired_orders(bo, today) = {}


\* the quantity of sale order line ij in dozens: a twelfth of a quantity in
\* units, rounded up to 0.001 dozen
C20_InDozens(ij) ==
    IF so[ij[1]].order_line[ij[2]].product_uom = "dozen" THEN DrawDownQty(ij)
    ELSE (DrawDownQty(ij) + 11) \div 12

\* C20: the quantity of a sale order line in another unit than the blanket
\* line's is converted to the blanket line's unit before it is summed, and
\* remaining_qty is the remaining quantity converted to the base unit of the
\* product: a line of 2 dozen with one sale order line of 12 units has 1 dozen
\* remaining and remaining_qty 12.
C20_ConvertedBeforeSummed ==
    LET counted   == C4_Counted(1)
        ordered   == SumOver(counted, [ij \in counted |-> C20_InDozens(ij)], 0)
        remaining == IF 2 * Unit > ordered THEN 2 * Unit - ordered ELSE 0
    IN  /\ bol[1].ordered_uom_qty = ordered
        /\ bol[1].remaining_uom_qty = remaining
        /\ bol[1].remaining_qty = ((12 * remaining + 9) \div 10) * 10
        /\ (\E ij \in counted :
               /\ counted = {ij}
               /\ so[ij[1]].order_line[ij[2]].product_uom = "unit"
               /\ DrawDownQty(ij) = 12 * Unit)
           => /\ bol[1].remaining_uom_qty = Unit
              /\ bol[1].remaining_qty = 12 * Unit

\* a sale order for 12 units has been created against the line of 2 dozen:
\* 1 dozen is ordered, 1 dozen remains, 12 in units
C20_Witness ==
    /\ last.op = "sale_order_create"
    /\ Len(so) = 1
    /\ so[1].order_line[1].product_uom = "unit"
    /\ so[1].order_line[1].product_uom_qty = 12 * Unit
    /\ bol[1].product_uom = "dozen"
    /\ bol[1].ordered_uom_qty = Unit
    /\ bol[1].remaining_uom_qty = Unit
    /\ bol[1].remaining_qty = 12 * Unit


\* the sale orders the step has created
C21_New == { i \in DOMAIN so' : i > Len(so) }

\* the wizard lines of customer c with quantity > 0
C21_Asked(c) ==
    { l \in DOMAIN wiz.line_ids :
        wiz.line_ids[l] > 0 /\ bo[bol[l].order_id].partner_id = c }

\* sale order i has exactly one line for each wizard line of its customer with
\* quantity > 0, with the product, unit and price of the blanket line and the
\* quantity of the wizard line, and no other line
C21_LinePerWizardLine(i) ==
    LET asked == C21_Asked(so'[i].partner_id)
        lines == so'[i].order_line
    IN  /\ Len(lines) = Cardinality(asked)
        /\ \A l \in asked :
             \E j \in DOMAIN lines :
                 /\ lines[j].blanket_order_line = l
                 /\ lines[j].product_id = bol[l].product_id
                 /\ lines[j].product_uom = bol[l].product_uom
                 /\ lines[j].price_unit = bol[l].price_unit
                 /\ lines[j].product_uom_qty = wiz.line_ids[l]
                 /\ \A k \in DOMAIN lines : lines[k].blanket_order_line = l => k = j

\* C21: create_sale_order that returns has created exactly one sale order for
\* each customer of the wizard lines with quantity > 0 and in it exactly one
\* line for each such wizard line, with the product, unit and price of the
\* blanket line, the quantity asked for and the reference to the blanket
\* line; wizard lines of quantity 0 give no sale order line, and a call with
\* no line of quantity > 0 raises.
C21_OneOrderPerCustomer ==
    [][last'.op = "create_sale_order" =>
         LET custs == { c \in {0, 1, 2} : C21_Asked(c) # {} }
         IN  /\ custs = {} => ~last'.ok
             /\ last'.ok =>
                  /\ Len(so') >= Len(so)
                  /\ SubSeq(so', 1, Len(so)) = so
                  /\ \A c \in custs :
                       Cardinality({ i \in C21_New : so'[i].partner_id = c }) = 1
                  /\ \A i \in C21_New :
                       /\ so'[i].partner_id \in custs
                       /\ C21_LinePerWizardLine(i)]_vars

\* create_sale_order has returned for a wizard with lines of two customers,
\* both with quantity > 0: two sale orders, one for each customer
C21_Witness ==
    /\ last.op = "create_sale_order"
    /\ last.ok
    /\ \A l \in {1, 2} : l \in DOMAIN wiz.line_ids /\ wiz.line_ids[l] > 0
    /\ bo[1].partner_id # bo[2].partner_id
    /\ Len(so) = 2
    /\ so[1].partner_id # so[2].partner_id
    /\ Len(so[1].order_line) = 1
    /\ Len(so[2].order_line) = 1


\* the step creates a sale order with a line referencing blanket line l
C22_Created(l) ==
    \E i \in DOMAIN so' :
        /\ i > Len(so)
        /\ l \in ReferencedLines(so'[i])

\* the step cancels a sale order with a line referencing blanket line l
C22_Cancelled(l) ==
    \E i \in DOMAIN so :
        /\ so[i].state # "cancel"
        /\ so'[i].state = "cancel"
        /\ l \in ReferencedLines(so[i])

C22_OrderOperation ==
    last'.op \in {"action_confirm", "action_cancel", "set_to_draft",
                  "expire_orders", "order_write", "tick"}

C23_RaisesBeforeWriting ==
    [][(last'.op \in {"action_cancel", "unlink"} /\ ~last'.ok) =>
         last'.written = {}]_vars


\* C30: action_confirm on a set of orders of which one fails validation
\* raises, confirms no order of the set, names none and does not call the
\* sequence; when all pass it returns, every order of the set is confirmed,
\* and each order that was not confirmed before has got a name that no other
\* order has.
C30_ConfirmAllOrNothing ==
    [][last'.op = "action_confirm" =>
         LET os == Range(last'.ids)
         IN  /\ (\E o \in os : ~C9_Valid(o)) =>
                  /\ ~last'.ok
                  /\ last'.written = {}
                  /\ bo' = bo
                  /\ seq' = seq
             /\ (\A o \in os : C9_Valid(o)) =>
                  /\ last'.ok
                  /\ \A o \in os :
                       /\ bo'[o].confirmed
                       /\ ~bo[o].confirmed =>
                            /\ bo'[o].name # 0
                            /\ \A x \in DOMAIN bo' \ {o} : bo'[x].name # bo'[o].name]_vars

\* action_confirm has raised on both orders together, of which the second has
\* run out and the first, valid and not confirmed, stays as it was
C30_Witness ==
    /\ last.op = "action_confirm"
    /\ ~last.ok
    /\ Range(last.ids) = {1, 2}
    /\ C9_Valid(1)
    /\ ~C9_Valid(2)
    /\ ~bo[1].confirmed
    /\ bo[1].name = 0
    /\ seq.calls = 0


\* C24: action_confirm on a valid order that is not confirmed returns
\* whatever the sequence does, and calls the sequence exactly once; when the
\* sequence gives no number the order is confirmed all the same, under a
\* name that is not empty and is built from the id of the order.
C24_ConfirmSurvivesSequenceFailure ==
    [][\A o \in DOMAIN bo :
         (last'.op = "action_confirm" /\ last'.id = o
            /\ C9_Valid(o) /\ ~bo[o].confirmed) =>
             /\ last'.ok
             /\ bo'[o].confirmed
             /\ bo'[o].name # 0
             /\ seq'.calls = seq.calls + 1
             /\ seq'.number = seq.number => bo'[o].name = -o]_vars

\* the order has been confirmed by a call to which the sequence gave no
\* number: it carries the fallback name, and the sequence was called once
C24_Witness ==
    /\ last.op = "action_confirm"
    /\ last.ok
    /\ bo[1].confirmed
    /\ bo[1].name < 0
    /\ bo[1].state = "open"
    /\ seq.calls = 1
    /\ seq.number = 0


\* C25: the quantity check of a wizard line lets a quantity through only if
\* it is not negative, is exactly 0 when nothing remains of the blanket line,
\* and is not greater than what remains.
C25_QtyLimits ==
    [][(last'.op = "wizard_line_write" /\ last'.ok) =>
         \A l \in DOMAIN wiz'.line_ids :
             wiz'.line_ids[l] # wiz.line_ids[l] =>
                 /\ wiz'.line_ids[l] >= 0
                 /\ bol[l].remaining_uom_qty = 0 => wiz'.line_ids[l] = 0
                 /\ wiz'.line_ids[l] <= bol[l].remaining_uom_qty]_vars


\* what sale order line ij adds to the sum of a line in dozens: its quantity
\* as it is when it is in kg, which does not convert, a twelfth of it rounded
\* up to 0.001 when it is in units
C26_Added(ij) ==
    LET uom == so[ij[1]].order_line[ij[2]].product_uom
    IN  IF uom = "kg" \/ uom = "dozen" THEN DrawDownQty(ij)
        ELSE (DrawDownQty(ij) + 11) \div 12

\* C26: when the conversion of one sale order line raises during the
\* recomputation, the unconverted quantity of that line is added to the sum,
\* every other sale order line is converted and summed as usual, and the
\* recomputation ends with remaining = max(0, original - sum); it neither
\* aborts nor sets the quantities to 0.
C26_FailedConversionAddsRawQuantity ==
    LET counted == C4_Counted(1)
        sum     == SumOver(counted, [ij \in counted |-> C26_Added(ij)], 0)
    IN  /\ bol[1].ordered_uom_qty = sum
        /\ bol[1].remaining_uom_qty =
               IF bol[1].original_uom_qty > sum THEN bol[1].original_uom_qty - sum
               ELSE 0

\* the line of 2 dozen has a sale order of 1 kg and one of 1 unit: 1 is
\* added as it is and 0.084 dozen for the unit, 0.916 dozen remain
C26_Witness ==
    /\ Len(so) = 2
    /\ \A i \in {1, 2} : so[i].state # "cancel"
    /\ \E i \in {1, 2} :
         /\ so[i].order_line[1].product_uom = "kg"
         /\ so[i].order_line[1].product_uom_qty = Unit
         /\ so[3 - i].order_line[1].product_uom = "unit"
         /\ so[3 - i].order_line[1].product_uom_qty = Unit
    /\ bol[1].ordered_uom_qty = Unit + 84
    /\ bol[1].remaining_uom_qty = Unit - 84


\* C27: a section or note carries no quantity: in every reachable state its
\* ordered and remaining quantities are 0, and it adds nothing to the
\* remaining quantity of its order.
C27_SectionCarriesNoQuantity ==
    \A l \in DOMAIN bol :
        bol[l].display_type =>
            /\ bol[l].ordered_uom_qty = 0
            /\ bol[l].remaining_uom_qty = 0
            /\ compute_uom_qty(bol[l].order_id, bol)
                   = remaining_total(bol[l].order_id, bol)


\* C28: with every sale order line created by create_sale_order, one call
\* after the other, the ordered quantity of a blanket line is never above
\* its original quantity, whatever number of wizards was opened on the line
\* before one of them was submitted: each submission is checked against what
\* remains when it is made.
C28_NeverOverAllocated ==
    \A l \in DOMAIN bol :
        ~bol[l].display_type =>
            /\ bol[l].ordered_uom_qty <= bol[l].original_uom_qty
            /\ SumOver(C4_Counted(l), [ij \in C4_Counted(l) |-> DrawDownQty(ij)], 0)
                   <= bol[l].original_uom_qty

\* two wizards asked for all of line 1 before either was submitted; the first
\* got it, and the submission of the second has raised
C28_Witness ==
    /\ last.op = "create_sale_order"
    /\ ~last.ok
    /\ \A w \in Wizards :
         /\ 1 \in DOMAIN wiz[w].line_ids
         /\ wiz[w].line_ids[1] = bol[1].original_uom_qty
    /\ Len(so) = 1
    /\ so[1].state # "cancel"
    /\ bol[1].ordered_uom_qty = bol[1].original_uom_qty
    /\ bol[1].remaining_uom_qty = 0


\* C29: an order that action_cancel has just moved to expired is still
\* expired after the next operation, when that is the creation or the
\* cancellation of a sale order, a write of a line quantity or of the
\* validity date, or the sweep.
C29_CancelledStaysExpired ==
    [][\A o \in DOMAIN bo :
         (/\ last.op = "action_cancel"
          /\ last.id = o
          /\ last.ok
          /\ bo[o].state = "expired"
          /\ last'.op \in {"sale_order_create", "sale_order_cancel",
                           "line_write", "order_write", "expire_orders"})
             => bo'[o].state = "expired"]_vars

====
